---- MODULE Spec2Model ----
(***************************************************************************)
(* Model of the perception loop of the smart assistive system:            *)
(* src/src/web_server.py (detection_loop thread, the HTTP handlers that   *)
(* run one at a time on the event loop, the lazily built singletons) and  *)
(* src/src/llm_service.py (the fallback narration).  The detection thread,*)
(* the handler thread and the audio workers interleave statement by       *)
(* statement.                                                             *)
(***************************************************************************)
EXTENDS Integers, Sequences, FiniteSets, TLC

\* ------------------------------------------------------------- bounds
\* config.DETECTION_INTERVAL: its value lives outside the sources at hand,
\* so the model treats it as a bound.
DETECTION_INTERVAL == 2
\* Longest backlog of one audio queue (queue.Queue() is unbounded).
MaxQueue == 2
\* time.time() when the LLMService is built, and how far the clock runs on.
StartTime == 100
MaxElapsed == 82
\* Detections one LLMService processes in a run.
MaxProcessed == 3
\* Longest detection list handed to the fallback heuristic.
MaxLen == 4

\* ------------------------------------------------------------ domains
None == "None"
Started == "CameraFeed"
NoText == "<unbound>"
Welcome == "Welcome. System is listening."
\* At most one instance per racing thread can ever be built.
InstanceIds == {1, 2}
\* Rows of the users table (ids as text).
UserIds == {"1"}
NoInstance == 0

Chair == [label |-> "chair", position |-> "left", distance |-> "far", is_dangerous |-> FALSE]
Stair == [label |-> "stair", position |-> "center", distance |-> "near", is_dangerous |-> TRUE]
\* What det.detect(frame) may return.
DetLists == {<< >>, <<Chair, Stair>>}
\* What the language model may answer.
LLMTexts == {"There is a stair ahead. Stop."}

Min(a, b) == IF a < b THEN a ELSE b

\* llm_service.py, line 78: the cooldown, in seconds
CooldownSeconds == 60
\* Steps of the clock: elapsed times below, at and above the cooldown occur.
Advances == {20, 41}
\* self.client (lines 32-44) and self.vector_store (lines 49-57)
Client == "genai.Client"
EmptyStore == "empty"
Documents == "documents"
\* No call in progress; nothing returned yet.
Idle == [op |-> "idle"]
NoResult == [op |-> "none"]
\* Lists of detections handed to generate_response.
ObjectLists == {<< >>, <<Chair>>, <<Stair>>, <<Chair, Stair>>, <<Chair, Chair>>}
Questions == {"What did you see near the door?"}
\* Detections for the fallback heuristic: every sort key occurs, one of them
\* twice.
Bench == [label |-> "bench", position |-> "right", distance |-> "far", is_dangerous |-> FALSE]
Door == [label |-> "door", position |-> "center", distance |-> "near", is_dangerous |-> FALSE]
Car == [label |-> "car", position |-> "right", distance |-> "far", is_dangerous |-> TRUE]
Detections == {Chair, Stair, Bench, Door, Car}
DetectionLists == UNION {[1..n -> Detections] : n \in 0..MaxLen}
\* Sessions for summarize_session: up to six labels seen, once or twice each.
SummaryLabels == <<"chair", "stair", "door", "car", "bench", "person">>
Sessions ==
    UNION {{[objects_seen |-> [i \in 1..n |-> [label |-> SummaryLabels[i], count |-> c[i]]],
             dangerous_events |-> d, start_time |-> StartTime] :
                c \in [1..n -> {1, 2}], d \in 0..Min(n, 1)} :
           n \in 0..Len(SummaryLabels)}

\* ------------------------------------------- llm_service.py, fallback
\* key=lambda x: (not x['is_dangerous'], x['distance'] != 'near')
SortKey(obj) ==
    (IF obj.is_dangerous THEN 0 ELSE 2) + (IF obj.distance # "near" THEN 1 ELSE 0)

\* list.sort is stable: an element goes after every element whose key is
\* not larger.
RECURSIVE InsertSortedUnstable(_, _)
InsertSortedUnstable(obj, sorted) ==
    IF sorted = << >> THEN <<obj>>
    ELSE IF SortKey(obj) <= SortKey(Head(sorted)) THEN <<obj>> \o sorted
    ELSE <<Head(sorted)>> \o InsertSortedUnstable(obj, Tail(sorted))
RECURSIVE InsertSorted(_, _)
InsertSorted(obj, sorted) ==
    IF sorted = << >> THEN <<obj>>
    ELSE IF SortKey(obj) < SortKey(Head(sorted)) THEN <<obj>> \o sorted
    ELSE <<Head(sorted)>> \o InsertSorted(obj, Tail(sorted))

RECURSIVE StableSort(_)
StableSort(objects) ==
    IF objects = << >> THEN << >>
    ELSE InsertSorted(objects[Len(objects)], StableSort(SubSeq(objects, 1, Len(objects) - 1)))

Describe(obj) ==
    obj.label \o " on " \o obj.position
        \o (IF obj.is_dangerous THEN ", " \o obj.distance ELSE "")

RECURSIVE JoinParts(_)
JoinParts(parts) ==
    IF parts = << >> THEN ""
    ELSE IF Len(parts) = 1 THEN parts[1]
    ELSE parts[1] \o ". " \o JoinParts(Tail(parts))

FallbackHeuristic(objects) ==
    LET sorted == StableSort(objects)
        top == SubSeq(sorted, 1, Min(3, Len(sorted)))
    IN  JoinParts([i \in 1..Len(top) |-> Describe(top[i])])

\* SceneReasoner.process: the language model's text, or the fallback
\* narration of the same detections when the model is absent or fails.
ProcessResults(detections) == LLMTexts \cup {FallbackHeuristic(detections)}

\* -------------------------------------------------------------- state
VARIABLES
    \* module globals of web_server.py
    camera, detector, reasoner, audio,
    current_detections, latest_frame, latest_llm_response,
    system_status, current_fps, system_active, lock,
    \* AudioFeedback instances: flag and queue of each
    muted, queue,
    \* detection_loop: position and locals
    lpc, l_aud, res_text, frame_count,
    \* the request handler in flight: position, argument, locals
    hpc, h_arg, h_obj,
    \* the run's scenario (which requests the clients send, which aspect of
    \* the run is recorded) and the record; the program reads neither
    scenario, hist,
    \* web_server.py, line 53
    active_user_id,
    \* web_server.py, line 55, and the settings_json of each user's row
    show_overlays, user_settings,
    \* LLMService: its fields, the records of its DataLogger, the clock, the
    \* call in progress, what the last call returned and what the first
    \* summarize_session since the last generate_response returned
    session_data, logged_objects, client, vector_store, log_records, now,
    request, result, summary,
    \* every detection handed to generate_response so far, in order
    processed

globals == <<camera, detector, reasoner, audio, current_detections, latest_frame,
             latest_llm_response, system_status, current_fps, system_active, lock>>
audioState == <<muted, queue>>
loopLocals == <<l_aud, res_text, frame_count>>
handlerState == <<hpc, h_arg, h_obj, scenario>>
serviceState == <<session_data, logged_objects, client, vector_store, log_records,
                  now, request, result, summary, processed>>
\* What the detection loop, the state handler and the audio handler never write.
overlayState == <<show_overlays, user_settings>>
elsewhere == <<scenario, active_user_id, overlayState, serviceState>>
programState == <<globals, audioState, lpc, loopLocals, handlerState, scenario, hist,
                  active_user_id, overlayState>>
vars == <<programState, serviceState>>

\* The fields the detection loop publishes.
loopWritten == <<latest_frame, current_detections, latest_llm_response,
                 system_status, current_fps>>

\* A run draws one scenario.  In "mute" the clients switch the system on and
\* send audio requests, in "user" and "start" they only switch it on; in the
\* others they switch the system on and off.
\* "loop" records nothing; each other scenario records one aspect of the run.
\* In "user" a session also identifies itself, in "ask" the clients also ask
\* questions, in "overlay" they also toggle the overlays and send state
\* requests without a session user; "cadence" records the ticks of the loop.
Scenarios == {"loop", "pair", "tick", "stale", "said", "mute", "user", "start",
              "ask", "overlay", "cadence"}
SendsDeactivation ==
    scenario \notin {"mute", "user", "start", "ask", "overlay", "cadence"}
SendsAudio == scenario = "mute"
SendsUserMe == scenario = "user"
SendsAsk == scenario = "ask"
SendsOverlay == scenario = "overlay"

\* LLMService.__init__, lines 22-50; the clock reads StartTime.
NewSession == [objects_seen |-> << >>, dangerous_events |-> 0, start_time |-> StartTime]
EmptyDict == [label \in {} |-> 0]

\* An LLMService with the given session_data and the given call in progress.
InitServiceWith(data, call) ==
    /\ session_data = data
    /\ logged_objects = EmptyDict
    /\ vector_store = None
    /\ log_records = << >>
    /\ now = StartTime
    /\ request = call /\ result = NoResult /\ summary = NoResult
    /\ processed = << >>

InitService == InitServiceWith(NewSession, Idle)

\* dict[key] = value
Put(dict, key, value) ==
    [k \in DOMAIN dict \cup {key} |-> IF k = key THEN value ELSE dict[k]]

\* json.loads(user.settings_json) if user.settings_json else {}
EmptySettings == [key \in {} |-> TRUE]

InitProgram ==
    /\ active_user_id = None
    /\ show_overlays = TRUE
    /\ user_settings = [user \in UserIds |-> EmptySettings]
    /\ camera = None /\ detector = FALSE
    /\ reasoner = NoInstance /\ audio = NoInstance
    /\ current_detections = << >> /\ latest_frame = None
    /\ latest_llm_response = Welcome
    /\ system_status = "Inactive" /\ current_fps = 0
    /\ system_active = FALSE /\ lock = "free"
    /\ muted = [i \in InstanceIds |-> FALSE]
    /\ queue = [i \in InstanceIds |-> << >>]
    /\ lpc = "check"
    /\ l_aud = NoInstance
    /\ res_text = NoText /\ frame_count = 0
    /\ hpc = "idle" /\ h_arg = FALSE /\ h_obj = NoInstance
    /\ hist = [pairPhase |-> "none", pairStops |-> 0, pairNews |-> 0,
               lastSaid |-> Welcome,
               framesSinceDet |-> 0, detMissed |-> FALSE,
               deactivated |-> FALSE, starts |-> 0, ticks |-> 0,
               pubs |-> 0, nars |-> 0, enqs |-> 0,
               cleared |-> 0,
               identified |-> None, passed |-> "unset",
               frameRead |-> FALSE, camFailing |-> FALSE,
               rejections |-> 0,
               frameTicks |-> 0, doneTicks |-> 0]

Init == InitProgram /\ scenario \in Scenarios /\ InitService /\ client = None

Bump(n) == Min(n + 1, 2)

\* Ids handed out in construction order.
NewInstance(current) == IF current = NoInstance THEN 1 ELSE 2

\* ------------------------------------------------ detection_loop thread
\* try: ... except Exception (lines 123, 172-174): every statement of the
\* loop body is inside the try, so a raise at any site lands in the handler.
OnExceptionEscapes(site) == IF site = "speak" THEN "dead" ELSE "except"
OnException(site) == "except"

\* Line 124: the flag the loop tests before a tick.
StatusObserved == system_status # "Inactive"
SystemActiveObserved == system_active

\* Line 145: frame_count % config.DETECTION_INTERVAL == 0
DetectionDueAlways(count) == count >= 0
DetectionDue(count) == count % DETECTION_INTERVAL = 0

\* Lines 163-167: the smoothed estimate moves towards the new sample.
Smooth(fps, sample) ==
    IF sample > fps THEN fps + 1 ELSE IF sample < fps THEN fps - 1 ELSE fps
FpsSamples == {1}

Raise(site) ==
    /\ lpc' = OnException(site)

LoopCheck ==
    /\ lpc = "check"
    /\ lpc' = IF SystemActiveObserved THEN "status" ELSE "idle"
    /\ hist' = IF SystemActiveObserved /\ hist.deactivated
               THEN [hist EXCEPT !.starts = Bump(@)] ELSE hist
    /\ UNCHANGED <<globals, audioState, loopLocals, handlerState, elsewhere>>

\* Lines 125-127: time.sleep(0.5); last_loop_time = time.time(); continue
LoopIdleResetsFps ==
    /\ lpc = "idle"
    /\ lpc' = "check"
    /\ current_fps' = 0
    /\ UNCHANGED <<camera, detector, reasoner, audio, current_detections, latest_frame,
                   latest_llm_response, system_status, system_active, lock,
                   audioState, loopLocals, handlerState, elsewhere, hist>>
LoopIdle ==
    /\ lpc = "idle"
    /\ lpc' = "check"
    /\ UNCHANGED <<globals, audioState, loopLocals, handlerState, elsewhere, hist>>

\* Line 129
LoopStatus ==
    /\ lpc = "status"
    /\ system_status' = "Running"
    /\ lpc' = "cam_check"
    /\ UNCHANGED <<camera, detector, reasoner, audio, current_detections, latest_frame,
                   latest_llm_response, current_fps, system_active, lock,
                   audioState, loopLocals, handlerState, elsewhere, hist>>

\* get_camera, lines 59 and 61: the existing camera is returned.  (A handler
\* that clears the global before line 61 makes cam None, and cam.read()
\* raise: one of the outcomes of LoopRead.)
LoopCamCheck ==
    /\ lpc = "cam_check"
    /\ lpc' = IF camera = None THEN "cam_new" ELSE "det"
    /\ UNCHANGED <<globals, audioState, loopLocals, handlerState, elsewhere, hist>>

\* get_camera, lines 60-61: camera = CameraFeed().start(), or the
\* constructor raises
LoopCamNew ==
    /\ lpc = "cam_new"
    /\ \/ /\ camera' = Started
          /\ lpc' = "det"
          /\ hist' = [hist EXCEPT
                         !.pairNews = IF hist.pairPhase # "none" THEN Bump(@) ELSE @,
                         !.camFailing = FALSE]
       \/ /\ Raise("camera")
          /\ hist' = [hist EXCEPT !.camFailing = (scenario = "start")]
          /\ UNCHANGED camera
    /\ UNCHANGED <<detector, reasoner, audio, current_detections, latest_frame,
                   latest_llm_response, system_status, current_fps, system_active, lock,
                   audioState, loopLocals, handlerState, elsewhere>>

\* get_detector, lines 63-73: a failed load is logged and leaves None.  Only
\* this thread reads or writes detector, so the local det equals it.
LoopDetector ==
    /\ lpc = "det"
    /\ \E loaded \in BOOLEAN : detector' = (detector \/ loaded)
    /\ lpc' = "res"
    /\ UNCHANGED <<camera, reasoner, audio, current_detections, latest_frame,
                   latest_llm_response, system_status, current_fps, system_active, lock,
                   audioState, loopLocals, handlerState, elsewhere, hist>>

\* get_reasoner, lines 75-79: built on first use, or the constructor raises
LoopReasoner ==
    /\ lpc = "res"
    /\ \/ /\ reasoner' = IF reasoner = NoInstance THEN NewInstance(reasoner) ELSE reasoner
          /\ lpc' = "aud_check"
       \/ /\ reasoner = NoInstance
          /\ Raise("reasoner")
          /\ UNCHANGED reasoner
    /\ UNCHANGED <<camera, detector, audio, current_detections, latest_frame,
                   latest_llm_response, system_status, current_fps, system_active, lock,
                   audioState, loopLocals, handlerState, elsewhere, hist>>

\* get_audio, line 83
LoopAudCheck ==
    /\ lpc = "aud_check"
    /\ lpc' = IF audio = NoInstance THEN "aud_new" ELSE "aud_ret"
    /\ UNCHANGED <<globals, audioState, loopLocals, handlerState, elsewhere, hist>>

\* get_audio, line 84
LoopAudNew ==
    /\ lpc = "aud_new"
    /\ \/ /\ audio' = NewInstance(audio)
          /\ lpc' = "aud_ret"
       \/ /\ Raise("audio")
          /\ UNCHANGED audio
    /\ UNCHANGED <<camera, detector, reasoner, current_detections, latest_frame,
                   latest_llm_response, system_status, current_fps, system_active, lock,
                   audioState, loopLocals, handlerState, elsewhere, hist>>

\* get_audio, line 85
LoopAudRet ==
    /\ lpc = "aud_ret"
    /\ l_aud' = audio
    /\ lpc' = "read"
    /\ UNCHANGED <<globals, audioState, res_text, frame_count,
                   handlerState, elsewhere, hist>>

\* Lines 136-139: cam.read() gives a frame, or None (sleep 0.1, continue),
\* or raises.
LoopRead ==
    /\ lpc = "read"
    /\ \/ /\ lpc' = "publish"
          /\ hist' = [hist EXCEPT
                         !.frameRead = (scenario = "start"),
                         !.frameTicks = IF scenario = "cadence"
                                        THEN (@ + 1) % DETECTION_INTERVAL ELSE @]
       \/ /\ lpc' = "check"
          /\ UNCHANGED hist
       \/ /\ Raise("read")
          /\ UNCHANGED hist
    /\ UNCHANGED <<globals, audioState, loopLocals, handlerState, elsewhere>>

\* Lines 142-143: with lock: latest_frame = frame.copy()
LoopPublish ==
    /\ lpc = "publish"
    /\ lock = "free"
    /\ latest_frame' = "frame"
    /\ lpc' = "detect"
    /\ hist' = IF scenario = "stale"
               THEN [hist EXCEPT !.framesSinceDet = Min(@ + 1, DETECTION_INTERVAL + 1)]
               ELSE hist
    /\ UNCHANGED <<camera, detector, reasoner, audio, current_detections,
                   latest_llm_response, system_status, current_fps, system_active, lock,
                   audioState, loopLocals, handlerState, elsewhere>>

\* Lines 145-148: on a detection tick with a detector, detect and publish
LoopDetectSkipsEmpty ==
    /\ lpc = "detect"
    /\ IF DetectionDue(frame_count) /\ detector
       THEN \/ \E detections \in DetLists :
                  /\ lpc' = "process"
                  /\ IF detections # << >>
                     THEN /\ current_detections' = detections
                          /\ hist' = [hist EXCEPT !.framesSinceDet = 0, !.detMissed = FALSE,
                                          !.pubs = IF hist.deactivated THEN Bump(@) ELSE @]
                     ELSE UNCHANGED <<current_detections, hist>>
            \/ /\ Raise("detect")
               /\ hist' = [hist EXCEPT !.detMissed = (scenario = "stale")]
               /\ UNCHANGED current_detections
       ELSE /\ lpc' = "count"
            /\ hist' = IF DetectionDue(frame_count) /\ scenario = "stale"
                       THEN [hist EXCEPT !.detMissed = TRUE] ELSE hist
            /\ UNCHANGED current_detections
    /\ UNCHANGED <<camera, detector, reasoner, audio, latest_frame,
                   latest_llm_response, system_status, current_fps, system_active, lock,
                   audioState, loopLocals, handlerState, elsewhere>>
LoopDetectWithoutDetector ==
    /\ lpc = "detect"
    /\ IF DetectionDue(frame_count)
       THEN \/ /\ lpc' = "process"
               /\ hist' = [hist EXCEPT !.framesSinceDet = 0, !.detMissed = FALSE,
                                       !.pubs = IF hist.deactivated THEN Bump(@) ELSE @]
               /\ IF detector
                  THEN \E detections \in DetLists : current_detections' = detections
                  ELSE UNCHANGED current_detections
            \/ /\ Raise("detect")
               /\ hist' = [hist EXCEPT !.detMissed = (scenario = "stale")]
               /\ UNCHANGED current_detections
       ELSE /\ lpc' = "count"
            /\ UNCHANGED <<current_detections, hist>>
    /\ UNCHANGED <<camera, detector, reasoner, audio, latest_frame,
                   latest_llm_response, system_status, current_fps, system_active, lock,
                   audioState, loopLocals, handlerState, elsewhere>>
LoopDetect ==
    /\ lpc = "detect"
    /\ IF DetectionDue(frame_count) /\ detector
       THEN \/ \E detections \in DetLists :
                  /\ current_detections' = detections
                  /\ lpc' = "process"
                  /\ hist' = [hist EXCEPT !.framesSinceDet = 0, !.detMissed = FALSE,
                                          !.pubs = IF hist.deactivated THEN Bump(@) ELSE @]
            \/ /\ Raise("detect")
               /\ hist' = [hist EXCEPT !.detMissed = (scenario = "stale")]
               /\ UNCHANGED current_detections
       ELSE /\ lpc' = "count"
            /\ hist' = IF DetectionDue(frame_count) /\ scenario = "stale"
                       THEN [hist EXCEPT !.detMissed = TRUE] ELSE hist
            /\ UNCHANGED current_detections
    /\ UNCHANGED <<camera, detector, reasoner, audio, latest_frame,
                   latest_llm_response, system_status, current_fps, system_active, lock,
                   audioState, loopLocals, handlerState, elsewhere>>

\* Lines 150-151: res_text = res.process(detections, frame=frame,
\* user_id=active_user_id)
LoopProcess ==
    /\ lpc = "process"
    /\ \/ \E text \in ProcessResults(current_detections) :
              /\ res_text' = text
              /\ lpc' = "store"
              /\ hist' = [hist EXCEPT
                             !.lastSaid = IF text # "" /\ scenario = "said" THEN text ELSE @,
                             !.passed = IF hist.identified # None THEN active_user_id ELSE @]
       \/ /\ Raise("process")
          /\ UNCHANGED <<res_text, hist>>
    /\ UNCHANGED <<globals, audioState, l_aud, frame_count,
                   handlerState, elsewhere>>

\* Lines 152-154: if res_text: with lock: latest_llm_response = res_text
LoopStoreAlways ==
    /\ lpc = "store"
    /\ lock = "free"
    /\ latest_llm_response' = res_text
    /\ lpc' = "speak"
    /\ hist' = IF hist.deactivated THEN [hist EXCEPT !.nars = Bump(@)] ELSE hist
    /\ UNCHANGED <<camera, detector, reasoner, audio, current_detections, latest_frame,
                   system_status, current_fps, system_active, lock,
                   audioState, loopLocals, handlerState, elsewhere>>
LoopStore ==
    /\ lpc = "store"
    /\ IF res_text # ""
       THEN /\ lock = "free"
            /\ latest_llm_response' = res_text
            /\ lpc' = "speak"
            /\ hist' = IF hist.deactivated THEN [hist EXCEPT !.nars = Bump(@)] ELSE hist
       ELSE /\ lpc' = "count"
            /\ UNCHANGED <<latest_llm_response, hist>>
    /\ UNCHANGED <<camera, detector, reasoner, audio, current_detections, latest_frame,
                   system_status, current_fps, system_active, lock,
                   audioState, loopLocals, handlerState, elsewhere>>

\* AudioFeedback.speak: appends unless muted, in one step.
Speak(id, text) ==
    IF muted[id] THEN queue ELSE [queue EXCEPT ![id] = Append(@, text)]

\* Lines 157-158: if aud: aud.speak(res_text)
LoopSpeak ==
    /\ lpc = "speak"
    /\ \/ /\ muted[l_aud] \/ Len(queue[l_aud]) < MaxQueue
          /\ queue' = Speak(l_aud, res_text)
          /\ lpc' = "count"
          /\ hist' = IF hist.deactivated /\ ~muted[l_aud]
                     THEN [hist EXCEPT !.enqs = Bump(@)] ELSE hist
       \/ /\ Raise("speak")
          /\ UNCHANGED <<queue, hist>>
    /\ UNCHANGED <<globals, muted, loopLocals, handlerState, elsewhere>>

\* Lines 160-170: frame_count += 1, the FPS estimate, time.sleep(0.01).
\* Only frame_count modulo the interval is ever read.
LoopCount ==
    /\ lpc = "count"
    /\ frame_count' = (frame_count + 1) % DETECTION_INTERVAL
    /\ \E sample \in FpsSamples : current_fps' = Smooth(current_fps, sample)
    /\ lpc' = "check"
    /\ hist' = [hist EXCEPT
                   !.ticks = IF hist.deactivated THEN Bump(@) ELSE @,
                   !.doneTicks = IF scenario = "cadence"
                                 THEN (@ + 1) % DETECTION_INTERVAL ELSE @]
    /\ UNCHANGED <<camera, detector, reasoner, audio, current_detections, latest_frame,
                   latest_llm_response, system_status, system_active, lock,
                   audioState, l_aud, res_text, handlerState, elsewhere>>

\* Lines 172-174: log, time.sleep(1), next iteration
LoopExcept ==
    /\ lpc = "except"
    /\ lpc' = "check"
    /\ UNCHANGED <<globals, audioState, loopLocals, handlerState, elsewhere, hist>>

Loop ==
    \/ LoopCheck \/ LoopIdle \/ LoopStatus
    \/ LoopCamCheck \/ LoopCamNew
    \/ LoopDetector
    \/ LoopReasoner
    \/ LoopAudCheck \/ LoopAudNew \/ LoopAudRet
    \/ LoopRead \/ LoopPublish \/ LoopDetect \/ LoopProcess
    \/ LoopStore \/ LoopSpeak \/ LoopCount \/ LoopExcept

\* ------------------------------------------------------ request handlers
\* The handlers are coroutines without an await: the event loop runs one
\* request to its end before the next, while the detection thread runs on.
Return ==
    /\ hpc' = "idle" /\ h_arg' = FALSE /\ h_obj' = NoInstance

\* set_system_state, line 259: system_active = req.active
StateRequest(active) ==
    /\ hpc = "idle"
    /\ active \/ SendsDeactivation
    /\ system_active' = active
    /\ h_arg' = active
    /\ hpc' = "state_status"
    /\ hist' =
         IF active
         THEN [hist EXCEPT !.pairPhase = IF @ = "inactive" THEN "reactivated" ELSE @,
                           !.deactivated = FALSE, !.starts = 0, !.ticks = 0,
                           !.pubs = 0, !.nars = 0, !.enqs = 0,
                           !.frameRead = FALSE, !.camFailing = FALSE]
         ELSE IF system_active /\ scenario = "pair"
         THEN [hist EXCEPT !.pairPhase = IF camera # None THEN "inactive" ELSE "none",
                           !.pairStops = 0, !.pairNews = 0]
         ELSE [hist EXCEPT !.camFailing = FALSE]
    /\ UNCHANGED <<camera, detector, reasoner, audio, current_detections, latest_frame,
                   latest_llm_response, system_status, current_fps, lock,
                   audioState, lpc, loopLocals, h_obj, elsewhere>>

\* Lines 261-264
StateStatus ==
    /\ hpc = "state_status"
    /\ system_status' = IF h_arg THEN "Starting..." ELSE "Inactive"
    /\ IF h_arg THEN Return ELSE hpc' = "state_lock" /\ UNCHANGED <<h_arg, h_obj, elsewhere>>
    /\ UNCHANGED <<camera, detector, reasoner, audio, current_detections, latest_frame,
                   latest_llm_response, current_fps, system_active, lock,
                   audioState, lpc, loopLocals, elsewhere, hist>>

\* Line 266: with lock
StateLock ==
    /\ hpc = "state_lock"
    /\ lock = "free"
    /\ lock' = "handler"
    /\ hpc' = "state_stop"
    /\ UNCHANGED <<camera, detector, reasoner, audio, current_detections, latest_frame,
                   latest_llm_response, system_status, current_fps, system_active,
                   audioState, lpc, loopLocals, h_arg, h_obj, elsewhere, hist>>

\* Lines 267-269: if camera: camera.stop(); camera = None
StateStop ==
    /\ hpc = "state_stop"
    /\ IF camera # None
       THEN /\ camera' = None
            /\ hist' = IF hist.pairPhase # "none"
                       THEN [hist EXCEPT !.pairStops = Bump(@)] ELSE hist
       ELSE UNCHANGED <<camera, hist>>
    /\ hpc' = "state_unlock"
    /\ UNCHANGED <<detector, reasoner, audio, current_detections, latest_frame,
                   latest_llm_response, system_status, current_fps, system_active, lock,
                   audioState, lpc, loopLocals, h_arg, h_obj, elsewhere>>

\* Leaving the with block, line 271: return
StateUnlock ==
    /\ hpc = "state_unlock"
    /\ lock' = "free"
    /\ Return
    /\ hist' = [hist EXCEPT !.deactivated = (scenario = "tick")]
    /\ UNCHANGED <<camera, detector, reasoner, audio, current_detections, latest_frame,
                   latest_llm_response, system_status, current_fps, system_active,
                   audioState, lpc, loopLocals, elsewhere>>

\* set_audio_state, line 320 into get_audio, line 83
AudioRequest(mute) ==
    /\ hpc = "idle"
    /\ SendsAudio
    /\ h_arg' = mute
    /\ hpc' = IF audio = NoInstance THEN "audio_new" ELSE "audio_ret"
    /\ UNCHANGED <<globals, audioState, lpc, loopLocals, h_obj, elsewhere, hist>>

\* get_audio, line 84; a raise ends the request
AudioNew ==
    /\ hpc = "audio_new"
    /\ \/ /\ audio' = NewInstance(audio)
          /\ hpc' = "audio_ret"
          /\ UNCHANGED <<h_arg, h_obj, elsewhere>>
       \/ /\ Return
          /\ UNCHANGED audio
    /\ UNCHANGED <<camera, detector, reasoner, current_detections, latest_frame,
                   latest_llm_response, system_status, current_fps, system_active, lock,
                   audioState, lpc, loopLocals, elsewhere, hist>>

\* get_audio, line 85
AudioRet ==
    /\ hpc = "audio_ret"
    /\ h_obj' = audio
    /\ hpc' = "audio_flag"
    /\ UNCHANGED <<globals, audioState, lpc, loopLocals, h_arg, elsewhere, hist>>

\* AudioFeedback.clear_queue: drops every queued item, in one step.
ClearQueue(id) == [queue EXCEPT ![id] = << >>]

\* Lines 321-325, the statements of the request after get_audio:
\* aud.muted = True; aud.clear_queue()   or   aud.muted = False
SetMutedClearsFirst ==
    \/ /\ hpc = "audio_flag"
       /\ IF h_arg
          THEN /\ queue' = ClearQueue(h_obj)
               /\ hist' = [hist EXCEPT !.cleared = IF scenario = "mute" THEN Len(queue[h_obj]) ELSE 0]
               /\ hpc' = "audio_clear"
               /\ UNCHANGED muted
          ELSE /\ muted' = [muted EXCEPT ![h_obj] = FALSE]
               /\ hpc' = "audio_done"
               /\ UNCHANGED <<queue, hist>>
       /\ UNCHANGED <<globals, lpc, loopLocals, h_arg, h_obj, elsewhere>>
    \/ /\ hpc = "audio_clear"
       /\ muted' = [muted EXCEPT ![h_obj] = TRUE]
       /\ hpc' = "audio_done"
       /\ UNCHANGED <<globals, queue, lpc, loopLocals, h_arg, h_obj, elsewhere, hist>>
SetMutedKeepsBacklog ==
    \/ /\ hpc = "audio_flag"
       /\ muted' = [muted EXCEPT ![h_obj] = h_arg]
       /\ hpc' = IF h_arg THEN "audio_clear" ELSE "audio_done"
       /\ UNCHANGED <<globals, queue, lpc, loopLocals, h_arg, h_obj, elsewhere, hist>>
    \/ /\ hpc = "audio_clear"
       /\ hpc' = "audio_done"
       /\ UNCHANGED <<globals, audioState, lpc, loopLocals, h_arg, h_obj, elsewhere, hist>>
SetMuted ==
    \/ /\ hpc = "audio_flag"
       /\ muted' = [muted EXCEPT ![h_obj] = h_arg]
       /\ hpc' = IF h_arg THEN "audio_clear" ELSE "audio_done"
       /\ UNCHANGED <<globals, queue, lpc, loopLocals, h_arg, h_obj, elsewhere, hist>>
    \/ /\ hpc = "audio_clear"
       /\ queue' = ClearQueue(h_obj)
       /\ hist' = [hist EXCEPT !.cleared = IF scenario = "mute" THEN Len(queue[h_obj]) ELSE 0]
       /\ hpc' = "audio_done"
       /\ UNCHANGED <<globals, muted, lpc, loopLocals, h_arg, h_obj, elsewhere>>

\* Line 326: return
AudioDone ==
    /\ hpc = "audio_done"
    /\ Return
    /\ hist' = [hist EXCEPT !.cleared = 0]
    /\ UNCHANGED <<globals, audioState, lpc, loopLocals, elsewhere>>

\* The routes of GET /api/user/me in the order they were added to the app:
\* app.include_router(auth_router) (line 34, the route of auth.py, line 142)
\* comes before @app.get("/api/user/me") (line 284).
UserMeRoutes == <<"get_current_user", "get_current_user_info">>
\* The router hands a request to the first route that matches.
Dispatch(routes) == Head(routes)

\* auth.py, lines 142-158: 401 without a session user or without its row,
\* else the user's fields; nothing is written.
GetCurrentUser(session_user, found) ==
    /\ UNCHANGED active_user_id

\* web_server.py, lines 284-304: as above, and line 296 sets active_user_id.
GetCurrentUserInfo(session_user, found) ==
    /\ active_user_id' = IF session_user # None /\ found
                         THEN session_user ELSE active_user_id

\* GET /api/user/me from a session (user_id in its cookie, or none), the row
\* of the user found or not.  Neither handler has a suspension point.
UserMeRequest(session_user, found) ==
    /\ hpc = "idle"
    /\ SendsUserMe
    /\ IF Dispatch(UserMeRoutes) = "get_current_user"
       THEN GetCurrentUser(session_user, found)
       ELSE GetCurrentUserInfo(session_user, found)
    /\ hist' = IF session_user # None /\ found
               THEN [hist EXCEPT !.identified = session_user, !.passed = "unset"]
               ELSE hist
    /\ UNCHANGED <<globals, audioState, lpc, loopLocals, handlerState, overlayState,
                   serviceState>>

UserMeRequests ==
    \E session_user \in UserIds \cup {None}, found \in BOOLEAN :
        UserMeRequest(session_user, found)

\* ask_question, line 311 into get_reasoner, line 77
AskRequest ==
    /\ hpc = "idle"
    /\ SendsAsk
    /\ hpc' = IF reasoner = NoInstance THEN "ask_new" ELSE "ask_call"
    /\ UNCHANGED <<globals, audioState, lpc, loopLocals, h_arg, h_obj, elsewhere, hist>>

\* get_reasoner, line 78; a raise ends the request
AskNew ==
    /\ hpc = "ask_new"
    /\ \/ /\ reasoner' = NewInstance(reasoner)
          /\ hpc' = "ask_call"
          /\ UNCHANGED <<h_arg, h_obj, elsewhere>>
       \/ /\ Return
          /\ UNCHANGED reasoner
    /\ UNCHANGED <<camera, detector, audio, current_detections, latest_frame,
                   latest_llm_response, system_status, current_fps, system_active, lock,
                   audioState, lpc, loopLocals, elsewhere, hist>>

\* Lines 79 and 312-313: answer = res.llm.ask(request.question); return
AskCall ==
    /\ hpc = "ask_call"
    /\ Return
    /\ UNCHANGED <<globals, audioState, lpc, loopLocals, elsewhere, hist>>

\* set_system_state, lines 254-257: without a user_id in the session the
\* request ends with 401 before any assignment.
StateRejected(active) ==
    /\ hpc = "idle"
    /\ SendsOverlay
    /\ hist' = [hist EXCEPT !.rejections = 1 - @]
    /\ UNCHANGED <<globals, audioState, lpc, loopLocals, handlerState, elsewhere>>

\* toggle_overlays, lines 331-344: the global is assigned (line 334), then a
\* session without a user_id ends with 401 (lines 335-337); else the row of
\* the user, when found, gets settings['show_overlays'] = request.show.
ToggleOverlays(show, session_user, found) ==
    /\ hpc = "idle"
    /\ SendsOverlay
    /\ show_overlays' = show
    /\ IF session_user = None
       THEN /\ hist' = [hist EXCEPT !.rejections = 1 - @]
            /\ UNCHANGED user_settings
       ELSE /\ user_settings' =
                 IF found
                 THEN [user_settings EXCEPT ![session_user] = Put(@, "show_overlays", show)]
                 ELSE user_settings
            /\ UNCHANGED hist
    /\ UNCHANGED <<globals, audioState, lpc, loopLocals, handlerState, scenario,
                   active_user_id, serviceState>>

StateRequests == \E active \in BOOLEAN : StateRequest(active)
RejectedRequests == \E active \in BOOLEAN : StateRejected(active)
AudioRequests == \E mute \in BOOLEAN : AudioRequest(mute)
AskRequests == AskRequest
OverlayRequests ==
    \E show \in BOOLEAN, session_user \in UserIds \cup {None}, found \in BOOLEAN :
        ToggleOverlays(show, session_user, found)
AskProgress == AskNew \/ AskCall

StateProgress == StateStatus \/ StateLock \/ StateStop \/ StateUnlock
AudioProgress == AudioNew \/ AudioRet \/ SetMuted \/ AudioDone

\* --------------------------------------------------------- audio worker
\* The worker of an AudioFeedback takes the oldest item and speaks it.
Worker(id) ==
    /\ queue[id] # << >>
    /\ queue' = [queue EXCEPT ![id] = Tail(@)]
    /\ UNCHANGED <<globals, muted, lpc, loopLocals, handlerState, elsewhere, hist>>

Workers == \E id \in InstanceIds : Worker(id)

\* ------------------------------------------------------------ LLMService
\* The calls of one LLMService run one at a time: request holds the call in
\* progress, result what the last call returned.
\* self.logged_objects.get(label, 0)
LastLogged(logged, label) == IF label \in DOMAIN logged THEN logged[label] ELSE 0

\* Line 72: objects_seen[label] = objects_seen.get(label, 0) + 1; a dict
\* keeps its keys in insertion order.
IncrementSeenOnce(seen, label) ==
    IF \E i \in 1..Len(seen) : seen[i].label = label
    THEN seen
    ELSE Append(seen, [label |-> label, count |-> 1])
IncrementSeen(seen, label) ==
    IF \E i \in 1..Len(seen) : seen[i].label = label
    THEN [i \in 1..Len(seen) |->
            IF seen[i].label = label THEN [seen[i] EXCEPT !.count = @ + 1] ELSE seen[i]]
    ELSE Append(seen, [label |-> label, count |-> 1])

\* Line 78: current_time - self.logged_objects.get(label, 0) > 60
CooldownElapsedAtSixty(current_time, last) == current_time - last >= CooldownSeconds
CooldownElapsed(current_time, last) == current_time - last > CooldownSeconds

\* DataLogger.log: the record is appended.
LogRecord(records, obj) ==
    Append(records, [type |-> "detection", label |-> obj.label, metadata |-> obj])

\* Line 89: desc = f"A {obj['distance']} {label} at {obj['position']}."
MemoryDescription(obj) ==
    "A " \o obj.distance \o " " \o obj.label \o " at " \o obj.position \o "."

\* Line 90: the arguments of the detached vector_store.add thread
MemoryWrite(obj, timestamp) ==
    [description |-> MemoryDescription(obj),
     metadata |-> [label |-> obj.label, timestamp |-> timestamp]]

\* Lines 69-90, the body of the loop over the detections, on the fields
\* st = [session_data, logged_objects, log_records, vector_store, timestamp,
\* writes]; writes lists the vector_store.add threads started so far.
RecordDetectionWritesWhenLogged(st, obj, current_time) ==
    LET counted ==
            [st EXCEPT !.session_data.objects_seen = IncrementSeen(@, obj.label),
                       !.session_data.dangerous_events =
                           IF obj.is_dangerous THEN @ + 1 ELSE @]
    IN  IF CooldownElapsed(current_time, LastLogged(st.logged_objects, obj.label))
        THEN [counted EXCEPT
                 !.log_records = LogRecord(@, obj),
                 !.logged_objects = Put(@, obj.label, current_time),
                 !.writes = IF st.vector_store # None
                            THEN Append(@, MemoryWrite(obj, st.timestamp)) ELSE @]
        ELSE counted
RecordDetection(st, obj, current_time) ==
    LET counted ==
            [st EXCEPT !.session_data.objects_seen = IncrementSeen(@, obj.label),
                       !.session_data.dangerous_events =
                           IF obj.is_dangerous THEN @ + 1 ELSE @]
        logged ==
            IF CooldownElapsed(current_time, LastLogged(st.logged_objects, obj.label))
            THEN [counted EXCEPT !.log_records = LogRecord(@, obj),
                                 !.logged_objects = Put(@, obj.label, current_time)]
            ELSE counted
    IN  IF st.vector_store # None
        THEN [logged EXCEPT !.writes = Append(@, MemoryWrite(obj, st.timestamp))]
        ELSE logged

\* Lines 68-90: for obj in objects
RECURSIVE RecordDetections(_, _, _)
RecordDetections(st, objects, current_time) ==
    IF objects = << >> THEN st
    ELSE RecordDetections(RecordDetection(st, Head(objects), current_time),
                          Tail(objects), current_time)

\* Lines 167-170: except Exception: log, return the fallback narration
OnGeminiErrorSilent(objects) == ""
OnGeminiError(objects) == FallbackHeuristic(objects)

\* Lines 138-172: what the call to the model gives, as <<outcome, value>>
GeminiResults(objects) ==
    IF client = None
    THEN {[llm |-> "absent", answer |-> None, value |-> FallbackHeuristic(objects)]}
    ELSE {[llm |-> "answered", answer |-> text, value |-> text] : text \in LLMTexts}
         \cup {[llm |-> "raised", answer |-> None, value |-> OnGeminiError(objects)]}

\* The caller hands over a detection list (json.loads, lines 63-65).
CallGenerateResponse(objects) ==
    /\ request = Idle
    /\ Len(processed) + Len(objects) <= MaxProcessed
    /\ request' = [op |-> "generate_response", objects |-> objects]
    /\ result' = NoResult
    /\ UNCHANGED <<session_data, logged_objects, client, vector_store, log_records,
                   now, summary, processed, programState>>

\* generate_response, lines 59-172.  self.vector_store is read anew for each
\* detection (line 88) while _init_vector_store runs in its own thread: the
\* first `skipped` detections of the call find None, the store `built` is
\* there for the others.  The detached vector_store.add threads (line 90)
\* may or may not have stored anything by the time of the return.
GenerateResponse ==
    /\ request.op = "generate_response"
    /\ \E skipped \in 0..Len(request.objects), built \in {EmptyStore, Documents},
          added \in BOOLEAN, gemini \in GeminiResults(request.objects) :
          LET objects == request.objects
              store == IF vector_store # None THEN vector_store
                       ELSE IF skipped < Len(objects) THEN built ELSE None
              before == RecordDetections(
                            [session_data |-> session_data,
                             logged_objects |-> logged_objects,
                             log_records |-> log_records,
                             vector_store |-> vector_store,
                             timestamp |-> now, writes |-> << >>],
                            SubSeq(objects, 1, skipped), now)
              st == RecordDetections([before EXCEPT !.vector_store = store],
                                     SubSeq(objects, skipped + 1, Len(objects)), now)
          IN  /\ vector_store # None => skipped = 0
              /\ session_data' = st.session_data
              /\ logged_objects' = st.logged_objects
              /\ log_records' = st.log_records
              /\ vector_store' = IF st.writes # << >> /\ added THEN Documents ELSE store
              /\ result' = [op |-> "generate_response", objects |-> objects,
                            time |-> now, llm |-> gemini.llm, answer |-> gemini.answer,
                            value |-> gemini.value,
                            skipped |-> skipped, store |-> store, writes |-> st.writes]
    /\ processed' = processed \o request.objects
    /\ summary' = NoResult
    /\ request' = Idle
    /\ UNCHANGED <<client, now, programState>>

\* _init_vector_store, lines 52-57: the background thread builds the store,
\* which may hold the documents of earlier runs; a failure leaves None.
InitVectorStore ==
    /\ vector_store = None
    /\ vector_store' \in {EmptyStore, Documents}
    /\ UNCHANGED <<session_data, logged_objects, client, log_records, now,
                   request, result, summary, processed, programState>>

\* vector_store.query(question, n_results=5): the documents found, or a raise.
QueryRaises == [raised |-> TRUE, documents |-> << >>]
QueryResults(store) ==
    {QueryRaises,
     [raised |-> FALSE,
      documents |-> IF store = EmptyStore THEN << >> ELSE <<"A near stair at center.">>]}

\* Lines 209-216: the context block of the prompt
RetrievalContextBlank(results) ==
    IF results.raised THEN "Error retrieving memory."
    ELSE IF results.documents = << >> THEN ""
    ELSE JoinParts(results.documents)
RetrievalContext(results) ==
    IF results.raised THEN "Error retrieving memory."
    ELSE IF results.documents = << >> THEN "No relevant past detections found."
    ELSE JoinParts(results.documents)

CallAsk(question) ==
    /\ request = Idle
    /\ request' = [op |-> "ask", question |-> question]
    /\ result' = NoResult
    /\ UNCHANGED <<session_data, logged_objects, client, vector_store, log_records,
                   now, summary, processed, programState>>

\* ask, lines 201-241
Ask ==
    /\ request.op = "ask"
    /\ IF vector_store = None
       THEN result' = [op |-> "ask", store |-> None, queried |-> FALSE,
                       query |-> [raised |-> FALSE, documents |-> << >>],
                       llm |-> "not invoked", context |-> None,
                       value |-> "Memory is not available (Vector Store disabled)."]
       ELSE \E results \in QueryResults(vector_store) :
              LET context_str == RetrievalContext(results)
                  answered == [op |-> "ask", store |-> vector_store, queried |-> TRUE,
                               query |-> results,
                               llm |-> "answered", context |-> context_str,
                               value |-> None]
              IN  IF client = None
                  THEN result' = [answered EXCEPT !.llm = "absent", !.context = None,
                                                  !.value = "LLM is not connected."]
                  ELSE \/ \E text \in LLMTexts : result' = [answered EXCEPT !.value = text]
                       \/ result' = [answered EXCEPT
                               !.llm = "raised",
                               !.value = "I'm sorry, I couldn't process your question right now."]
    /\ request' = Idle
    /\ UNCHANGED <<session_data, logged_objects, client, vector_store, log_records,
                   now, summary, processed, programState>>

\* sorted(items, key=lambda x: x[1], reverse=True): stable, so an item goes
\* after every item whose count is not smaller.
RECURSIVE InsertByCount(_, _)
InsertByCount(item, sorted) ==
    IF sorted = << >> THEN <<item>>
    ELSE IF item.count > Head(sorted).count THEN <<item>> \o sorted
    ELSE <<Head(sorted)>> \o InsertByCount(item, Tail(sorted))

RECURSIVE SortByCount(_)
SortByCount(items) ==
    IF items = << >> THEN << >>
    ELSE InsertByCount(items[Len(items)], SortByCount(SubSeq(items, 1, Len(items) - 1)))

\* Line 194: the 5 most frequent labels
TopObjectsUnsorted(seen) == SubSeq(seen, 1, Min(5, Len(seen)))
TopObjects(seen) ==
    LET sorted == SortByCount(seen) IN SubSeq(sorted, 1, Min(5, Len(sorted)))

\* Line 195: ", ".join(f"{k} ({v})")
RECURSIVE TopString(_)
TopString(top) ==
    IF top = << >> THEN ""
    ELSE Head(top).label \o " (" \o ToString(Head(top).count) \o ")"
         \o (IF Len(top) > 1 THEN ", " \o TopString(Tail(top)) ELSE "")

\* Lines 197-199
SummaryText(duration, dangerous, top) ==
    "Session ended. Duration: " \o ToString(duration) \o " seconds. "
        \o "Dangerous events: " \o ToString(dangerous) \o ". "
        \o "Common objects: " \o TopString(top) \o "."

CallSummarizeSession ==
    /\ request = Idle
    /\ request' = [op |-> "summarize_session"]
    /\ result' = NoResult
    /\ UNCHANGED <<session_data, logged_objects, client, vector_store, log_records,
                   now, summary, processed, programState>>

\* summarize_session, lines 189-199; summary keeps what the first call
\* since the last generate_response returned.
SummarizeSession ==
    /\ request.op = "summarize_session"
    /\ LET duration == now - session_data.start_time
           top == TopObjects(session_data.objects_seen)
           returned == [op |-> "summarize_session", duration |-> duration,
                        dangerous |-> session_data.dangerous_events, top |-> top,
                        value |-> SummaryText(duration, session_data.dangerous_events, top)]
       IN  /\ result' = returned
           /\ summary' = IF summary = NoResult THEN returned ELSE summary
    /\ request' = Idle
    /\ UNCHANGED <<session_data, logged_objects, client, vector_store, log_records,
                   now, processed, programState>>

\* time.time() moves on, also while a call is in progress.
AdvanceClock(seconds) ==
    /\ now + seconds <= StartTime + MaxElapsed
    /\ now' = now + seconds
    /\ UNCHANGED <<session_data, logged_objects, client, vector_store, log_records,
                   request, result, summary, processed, programState>>

\* _fallback_heuristic, lines 175-187, on the list of the call; the list is
\* sorted in place.
Fallback ==
    /\ request.op = "_fallback_heuristic"
    /\ result' = [op |-> "_fallback_heuristic", objects |-> request.objects,
                  sorted |-> StableSort(request.objects),
                  value |-> FallbackHeuristic(request.objects)]
    /\ request' = Idle
    /\ UNCHANGED <<session_data, logged_objects, client, vector_store, log_records,
                   now, summary, processed, programState>>

\* ------------------------------------------- the contents for the model
\* Detections with a person-like label, and what generate_response may be
\* given for image_data and user_id.
Person == [label |-> "Person", position |-> "center", distance |-> "near", is_dangerous |-> FALSE]
Salesperson ==
    [label |-> "salesperson", position |-> "left", distance |-> "far", is_dangerous |-> FALSE]
PromptObjectLists ==
    {<< >>, <<Chair>>, <<Person>>, <<Stair, Salesperson>>, <<Chair, Stair>>,
     <<Person, Chair>>}
Frame == "ndarray"
Images == {None, Frame, "bytes"}
PromptUserIds == {None, "1", "2"}
\* Rows of ReferenceFace: owner, name, file, and whether the file is there
\* and opens as an image.
Anna == [user_id |-> "1", name |-> "Anna", file_path |-> "faces/anna.jpg", loads |-> TRUE]
Ben == [user_id |-> "1", name |-> "Ben", file_path |-> "faces/ben.jpg", loads |-> FALSE]
Carl == [user_id |-> "2", name |-> "Carl", file_path |-> "faces/carl.jpg", loads |-> TRUE]
Dora == [user_id |-> "1", name |-> "Dora", file_path |-> "faces/dora.jpg", loads |-> TRUE]
FaceTables ==
    {<< >>, <<Anna>>, <<Ben>>, <<Carl>>, <<Carl, Anna>>, <<Anna, Ben, Dora>>,
     <<Ben, Carl>>}
\* config.TARGET_LANGUAGE
TargetLanguage == "English"

\* The characters of the labels above.
Spelling(label) ==
    CASE label = "Person" -> <<"P", "e", "r", "s", "o", "n">>
      [] label = "salesperson" -> <<"s", "a", "l", "e", "s", "p", "e", "r", "s", "o", "n">>
      [] label = "chair" -> <<"c", "h", "a", "i", "r">>
      [] label = "stair" -> <<"s", "t", "a", "i", "r">>

UpperCase == <<"A", "B", "C", "D", "E", "F", "G", "H", "I", "J", "K", "L", "M",
               "N", "O", "P", "Q", "R", "S", "T", "U", "V", "W", "X", "Y", "Z">>
LowerCase == <<"a", "b", "c", "d", "e", "f", "g", "h", "i", "j", "k", "l", "m",
               "n", "o", "p", "q", "r", "s", "t", "u", "v", "w", "x", "y", "z">>
\* str.lower(), character by character
Lower(chars) ==
    [i \in 1..Len(chars) |->
        IF \E k \in 1..Len(UpperCase) : UpperCase[k] = chars[i]
        THEN LowerCase[CHOOSE k \in 1..Len(UpperCase) : UpperCase[k] = chars[i]]
        ELSE chars[i]]
\* needle in hay
Contains(hay, needle) ==
    \E i \in 1..(Len(hay) - Len(needle) + 1) :
        SubSeq(hay, i, i + Len(needle) - 1) = needle

\* Line 100: 'person' in obj['label'].lower()
ContainsPerson(objects) ==
    \E i \in 1..Len(objects) :
        Contains(Lower(Spelling(objects[i].label)), <<"p", "e", "r", "s", "o", "n">>)

\* Lines 97-98: one line of the context block
ObjectDescription(obj) ==
    "- " \o obj.label \o " at " \o obj.position \o " (distance: " \o obj.distance \o ")"
        \o (IF obj.is_dangerous THEN " [DANGEROUS]" ELSE "")

\* "\\n".join(parts)
RECURSIVE JoinLines(_)
JoinLines(parts) ==
    IF Len(parts) = 1 THEN Head(parts)
    ELSE Head(parts) \o "\\n" \o JoinLines(Tail(parts))

\* Line 103
ContextStr(objects) ==
    IF objects = << >> THEN "No specific objects detected by basic sensors."
    ELSE JoinLines([i \in 1..Len(objects) |-> ObjectDescription(objects[i])])

\* Lines 105-108, 128 and 130-136: the pieces of the prompt text
PromptPrefix ==
    "You are an assistive vision assistant for a visually impaired user. "
        \o "I will provide an image of what is in front of the user, "
        \o "and a list of objects detected by sensors.\\n"
FaceInstruction ==
    "I've also provided reference images of known people. "
        \o "Compare any faces in the main image to these references. "
        \o "If you recognize them, refer to them by name. "
        \o "Explicitly describe their emotion or expressions.\\n"
PromptBody(context_str, target_language) ==
    "Sensor Detections:\\n" \o context_str \o "\\n\\n"
        \o "Task: Analyze the main image and the detections. "
        \o "Provide a helpful, safety-focused spoken notification in "
        \o target_language \o ". "
        \o "If there is text in the image, read it if relevant. "
        \o "Describe important details that sensors might miss. "
        \o "Strictly follow this format: 'There is [description]. [Navigational guidance]'. "
        \o "Keep it concise, under 2 sentences. Prioritize immediate safety hazards."

\* An item of contents: a text, given by its pieces in order, or an image.
TextPart(pieces) == [kind |-> "text", pieces |-> pieces, image |-> None, mode |-> None]
ImagePart(image, mode) == [kind |-> "image", pieces |-> << >>, image |-> image, mode |-> mode]

\* Lines 110-125: the rows of the user whose file is there and loads, in the
\* order of the query; without a person or a user_id the table is not read.
ReferenceFacesOfAnyUser(faces, contains_person, user_id) ==
    IF contains_person /\ user_id # None
    THEN SelectSeq(faces, LAMBDA face : face.loads)
    ELSE << >>
ReferenceFaces(faces, contains_person, user_id) ==
    IF contains_person /\ user_id # None
    THEN SelectSeq(faces, LAMBDA face : face.user_id = user_id /\ face.loads)
    ELSE << >>

\* Lines 144-147: for kf in user_faces: the label, then the image
RECURSIVE FaceParts(_)
FaceParts(user_faces) ==
    IF user_faces = << >> THEN << >>
    ELSE <<TextPart(<<"Reference Image: " \o Head(user_faces).name>>),
           ImagePart(Head(user_faces).file_path, "file")>>
         \o FaceParts(Tail(user_faces))

\* cv2.cvtColor(image_data, cv2.COLOR_BGR2RGB); Image.fromarray
ToRGB(image_data) == ImagePart(image_data, "RGB")

\* Lines 92-157: the list handed to generate_content
Contents(objects, image_data, user_id, faces) ==
    LET contains_person == ContainsPerson(objects)
        user_faces == ReferenceFaces(faces, contains_person, user_id)
        with_faces == contains_person /\ user_faces # << >>
        prompt == TextPart(<<PromptPrefix>>
                           \o (IF with_faces THEN <<FaceInstruction>> ELSE << >>)
                           \o <<PromptBody(ContextStr(objects), TargetLanguage)>>)
    IN  (IF with_faces THEN FaceParts(user_faces) ELSE << >>)
        \o <<prompt>>
        \o (IF image_data = Frame
            THEN <<TextPart(<<"Main Image:">>), ToRGB(image_data)>>
            ELSE << >>)

\* generate_response with a client, lines 92-162, up to the call of the
\* model: result holds the arguments and the contents.
BuildContents ==
    /\ request.op = "generate_content"
    /\ client # None
    /\ result' = [op |-> "generate_content", objects |-> request.objects,
                  image_data |-> request.image_data, user_id |-> request.user_id,
                  faces |-> request.faces,
                  contents |-> Contents(request.objects, request.image_data,
                                        request.user_id, request.faces)]
    /\ request' = Idle
    /\ UNCHANGED <<session_data, logged_objects, client, vector_store, log_records,
                   now, summary, processed, programState>>

GenerateCalls == \E objects \in ObjectLists : CallGenerateResponse(objects)
AskCalls == \E question \in Questions : CallAsk(question)
Clock == \E seconds \in Advances : AdvanceClock(seconds)

\* ------------------------------------------------------- specifications
Next ==
    \/ Loop
    \/ StateRequests \/ StateProgress
    \/ AudioRequests \/ AudioProgress
    \/ UserMeRequests
    \/ AskRequests \/ AskProgress
    \/ RejectedRequests \/ OverlayRequests
    \/ Workers

Spec == Init /\ [][Next]_vars

\* The threads are scheduled by the interpreter: each one that can run
\* eventually does.  No request is ever bound to arrive.
\* The runs of the "loop" scenario, where no audio request is sent.
LoopScenarioNext == Loop \/ StateRequests \/ StateProgress \/ Workers

LoopScenarioInit == InitProgram /\ scenario = "loop" /\ InitService /\ client = None

FairSpec ==
    /\ LoopScenarioInit
    /\ [][LoopScenarioNext]_vars
    /\ WF_vars(Loop) /\ WF_vars(StateProgress) /\ WF_vars(Workers)

\* One LLMService, with or without a client, and its callers.
ServiceNext ==
    \/ GenerateCalls \/ GenerateResponse
    \/ AskCalls \/ Ask
    \/ CallSummarizeSession \/ SummarizeSession
    \/ InitVectorStore
    \/ Clock

ServiceInit ==
    InitProgram /\ scenario = "loop" /\ InitService /\ client \in {None, Client}

ServiceSpec == ServiceInit /\ [][ServiceNext]_vars

\* The fallback heuristic on every list of up to MaxLen detections.
FallbackNext == Fallback

FallbackInit ==
    /\ InitProgram /\ scenario = "loop" /\ client = None
    /\ \E objects \in DetectionLists :
          InitServiceWith(NewSession, [op |-> "_fallback_heuristic", objects |-> objects])

FallbackSpec == FallbackInit /\ [][FallbackNext]_vars

\* summarize_session on sessions of up to six labels.
SummaryNext == CallSummarizeSession \/ SummarizeSession \/ Clock

SummaryInit ==
    /\ InitProgram /\ scenario = "loop" /\ client = None
    /\ \E data \in Sessions : InitServiceWith(data, Idle)

SummarySpec == SummaryInit /\ [][SummaryNext]_vars

\* The contents for the model on every detection list, image, user id and
\* face table of the domains above.
PromptNext == BuildContents

PromptInit ==
    /\ InitProgram /\ scenario = "loop" /\ client = Client
    /\ \E objects \in PromptObjectLists, image_data \in Images,
          user_id \in PromptUserIds, faces \in FaceTables :
          InitServiceWith(NewSession,
                          [op |-> "generate_content", objects |-> objects,
                           image_data |-> image_data, user_id |-> user_id,
                           faces |-> faces])

PromptSpec == PromptInit /\ [][PromptNext]_vars

\* ================================================================ claims
LoopPositions ==
    {"check", "idle", "status", "cam_check", "cam_new", "det", "res",
     "aud_check", "aud_new", "aud_ret", "read", "publish", "detect",
     "process", "store", "speak", "count", "except"}
StatePositions == {"state_status", "state_lock", "state_stop", "state_unlock"}

\* C1: the detection loop never terminates: whatever raises in a tick, the
\* thread stays inside the loop, and from the except clause it always
\* reaches the head of the next iteration.
C1_LoopNeverTerminates ==
    /\ [](lpc \in LoopPositions)
    /\ ((lpc = "except") ~> (lpc = "check"))
\* An exception raised after the frame of the tick was published.
C1_Witness == lpc = "except" /\ latest_frame # None /\ audio # NoInstance

\* C2: with the system switched off, no state request in flight and the
\* loop in its idle sleep, the visible status is "Inactive".
C2_InactiveStatusWhenIdle ==
    (~system_active /\ lpc = "idle" /\ hpc \notin StatePositions)
        => system_status = "Inactive"

\* C3: with the system switched off, no state request in flight and the
\* loop in its idle sleep, no camera is held.
C3_CameraReleasedWhenIdle ==
    (~system_active /\ lpc = "idle" /\ hpc \notin StatePositions)
        => camera = None

\* C4: within one Active -> Inactive -> Active pair that began with a camera
\* held, the camera is stopped at most once and built at most once, and
\* exactly once each by the time the re-activated system holds a camera.
C4_OneStopOneCameraPerPair ==
    hist.pairPhase # "none" =>
        /\ hist.pairStops <= 1
        /\ hist.pairNews <= 1
        /\ (hist.pairPhase = "reactivated" /\ camera # None) =>
               (hist.pairStops = 1 /\ hist.pairNews = 1)

\* C5: an iteration that finds system_active false goes to the idle sleep
\* and back to the head of the loop, and writes none of the published
\* fields, no queue and no singleton on the way.
C5_IdleIterationDoesNothing ==
    [][((lpc = "check" /\ ~system_active /\ lpc' # lpc) =>
            (lpc' = "idle"
             /\ UNCHANGED <<loopWritten, queue, camera, detector, reasoner, audio>>))
       /\ ((lpc = "idle" /\ lpc' # lpc) =>
            (lpc' = "check"
             /\ UNCHANGED <<loopWritten, queue, camera, detector, reasoner, audio>>))]_vars
\* An idle sleep once frames and an FPS estimate exist.
C5_Witness ==
    lpc = "idle" /\ ~system_active /\ latest_frame # None /\ current_fps > 0

\* C6: after a deactivation request has returned and until the next
\* activation request, no tick starts, and the tick in flight completes at
\* most once, publishing at most one detection list, one narration and one
\* audio item.
C6_AtMostOneMoreTick ==
    hist.deactivated =>
        /\ hist.starts = 0
        /\ hist.ticks <= 1 /\ hist.pubs <= 1 /\ hist.nars <= 1 /\ hist.enqs <= 1
\* A tick in flight at the deactivation ran to its end, publishing all three.
C6_Witness ==
    /\ hist.deactivated /\ lpc = "idle"
    /\ hist.ticks = 1 /\ hist.pubs = 1 /\ hist.nars = 1 /\ hist.enqs = 1

\* C7 as stated: outside the statement that stores it, the visible narration
\* is the result of the most recently completed process() call.
C7_NarrationIsLastResult ==
    (res_text # NoText /\ lpc # "store") => latest_llm_response = res_text
\* C7 as amended: outside the statement that stores it, the visible narration
\* is the most recent non-empty result of process(), or the welcome text
\* before any; an empty result leaves the stored narration in place.
C7_NarrationIsLastNonEmptyResult ==
    (scenario = "said" /\ lpc # "store") => latest_llm_response = hist.lastSaid
\* An empty result was skipped and an earlier narration is still visible.
C7_Witness ==
    /\ scenario = "said" /\ lpc = "count" /\ res_text = ""
    /\ latest_llm_response # Welcome

C9_MuteClearsBacklog ==
    /\ [](hpc = "audio_done" =>
            IF h_arg THEN muted[h_obj] /\ queue[h_obj] = << >> ELSE ~muted[h_obj])
    /\ [][(hpc = "audio_flag" /\ ~h_arg /\ hpc' # hpc) => queue' = queue]_vars
\* A mute request that cleared a full backlog.
C9_Witness ==
    hpc = "audio_done" /\ h_arg /\ hist.cleared = MaxQueue

Labels == {"chair", "stair"}
CountLabel(records, label) == Len(SelectSeq(records, LAMBDA r : r.label = label))
InList(objects, label) == \E i \in 1..Len(objects) : objects[i].label = label

\* A generate_response call appends one record for a label and resets its
\* timer exactly when the label is in the list and its cooldown is over,
\* where the cooldown is over at 60 s (inclusive) or only after 60 s.
LoggedOnceIfDue(inclusive) ==
    (request.op = "generate_response" /\ request' = Idle) =>
        \A label \in Labels :
            LET never == label \notin DOMAIN logged_objects
                due == \/ never
                       \/ IF inclusive
                          THEN now - logged_objects[label] >= CooldownSeconds
                          ELSE now - logged_objects[label] > CooldownSeconds
            IN  IF InList(request.objects, label) /\ due
                THEN /\ CountLabel(log_records', label) = CountLabel(log_records, label) + 1
                     /\ label \in DOMAIN logged_objects'
                     /\ logged_objects'[label] = now
                ELSE /\ CountLabel(log_records', label) = CountLabel(log_records, label)
                     /\ (label \in DOMAIN logged_objects') = ~never
                     /\ ~never => logged_objects'[label] = logged_objects[label]

\* C11 as stated: a detection of label L is logged, and L's timer reset, if
\* and only if L was never logged or at least 60 s (60 included) have passed
\* since L's last record; the labels' timers are independent.
C11_LoggedIffSixtyElapsed == [][LoggedOnceIfDue(TRUE)]_vars
\* C11 as amended: ... if and only if L was never logged or more than 60 s
\* (60 excluded) have passed since L's last record.
C11_LoggedIffMoreThanSixtyElapsed == [][LoggedOnceIfDue(FALSE)]_vars
\* A detection processed exactly 60 s after its label's last record.
C11_Witness ==
    /\ result.op = "generate_response"
    /\ \E i \in 1..Len(result.objects) :
          /\ result.objects[i].label \in DOMAIN logged_objects
          /\ result.time - logged_objects[result.objects[i].label] = CooldownSeconds

\* Rank of a detection in the order (dangerous first, then near first).
Rank(obj) ==
    IF obj.is_dangerous
    THEN (IF obj.distance = "near" THEN 1 ELSE 2)
    ELSE (IF obj.distance = "near" THEN 3 ELSE 4)
Ranks == 1..4
WithRank(objects, rank) == SelectSeq(objects, LAMBDA obj : Rank(obj) = rank)
Rendered(obj) ==
    IF obj.is_dangerous
    THEN obj.label \o " on " \o obj.position \o ", " \o obj.distance
    ELSE obj.label \o " on " \o obj.position

\* C12: the fallback heuristic orders the list by rank, keeping the order of
\* the list among detections of equal rank, renders the first three, the
\* distance only for a dangerous one, and joins them with ". "; the list
\* [chair, stair] gives "stair on center, near. chair on left".
C12_FallbackIsStableSortedTopThree ==
    result.op = "_fallback_heuristic" =>
        LET objects == result.objects
            sorted == result.sorted
            top == SubSeq(sorted, 1, Min(3, Len(sorted)))
        IN  /\ Len(sorted) = Len(objects)
            /\ \A i \in 1..(Len(sorted) - 1) : Rank(sorted[i]) <= Rank(sorted[i + 1])
            /\ \A rank \in Ranks : WithRank(sorted, rank) = WithRank(objects, rank)
            /\ result.value =
                 CASE Len(top) = 0 -> ""
                   [] Len(top) = 1 -> Rendered(top[1])
                   [] Len(top) = 2 -> Rendered(top[1]) \o ". " \o Rendered(top[2])
                   [] OTHER -> Rendered(top[1]) \o ". " \o Rendered(top[2])
                                   \o ". " \o Rendered(top[3])
            /\ objects = <<Chair, Stair>> =>
                   result.value = "stair on center, near. chair on left"
\* More than three detections, two of equal rank out of order with a third.
C12_Witness ==
    /\ result.op = "_fallback_heuristic"
    /\ Len(result.objects) > 3
    /\ result.objects[1] = Bench /\ result.objects[2] = Chair /\ result.objects[3] = Stair

\* C13: generate_response returns the fallback narration of its detection
\* list when the client is absent or the call to the model raises, and the
\* model's text as it is when the call succeeds.
C13_FallbackOnModelFailure ==
    result.op = "generate_response" =>
        /\ (client = None) = (result.llm = "absent")
        /\ result.llm \in {"absent", "raised", "answered"}
        /\ result.llm \in {"absent", "raised"} =>
               result.value = FallbackHeuristic(result.objects)
        /\ result.llm = "answered" =>
               (result.answer \in LLMTexts /\ result.value = result.answer)
\* The call to the model raised on a list whose fallback is not empty.
C13_Witness ==
    /\ result.op = "generate_response" /\ result.llm = "raised"
    /\ result.objects = <<Chair, Stair>>

AskAnswers ==
    LLMTexts \cup {"Memory is not available (Vector Store disabled).",
                   "LLM is not connected.",
                   "I'm sorry, I couldn't process your question right now."}

\* C14: ask returns a string in every state of the store and of the model;
\* with an empty store or a failed query the model, when there is a client,
\* is invoked with the "no relevant past detections" context respectively
\* the retrieval-error context, and a failing call gives the apology.
C14_AskAlwaysAnswers ==
    result.op = "ask" =>
        /\ result.value \in AskAnswers
        /\ result.store = None =>
               /\ result.llm = "not invoked"
               /\ result.value = "Memory is not available (Vector Store disabled)."
        /\ (result.store # None /\ client = None) =>
               result.value = "LLM is not connected."
        /\ (result.store # None /\ client # None) =>
               /\ result.queried
               /\ result.llm \in {"answered", "raised"}
               /\ result.query.raised => result.context = "Error retrieving memory."
               /\ (~result.query.raised /\ result.store = EmptyStore) =>
                      result.context = "No relevant past detections found."
        /\ result.llm = "raised" =>
               result.value = "I'm sorry, I couldn't process your question right now."
        /\ result.llm = "answered" => result.value \in LLMTexts
\* An empty store was queried and the call to the model failed.
C14_Witness ==
    /\ result.op = "ask" /\ result.store = EmptyStore
    /\ ~result.query.raised /\ result.llm = "raised"

CountDangerous(objects) == Len(SelectSeq(objects, LAMBDA obj : obj.is_dangerous))
SeenCount(seen, label) ==
    IF \E i \in 1..Len(seen) : seen[i].label = label
    THEN seen[CHOOSE i \in 1..Len(seen) : seen[i].label = label].count
    ELSE 0

\* C18: objects_seen[L] is the number of detections of label L handed to
\* generate_response so far and dangerous_events the number of dangerous
\* ones; no step lowers either, and only generate_response changes them.
C18_SessionStatsAccumulate ==
    /\ [](/\ \A label \in Labels :
                SeenCount(session_data.objects_seen, label) = CountLabel(processed, label)
          /\ \A i \in 1..Len(session_data.objects_seen) :
                /\ session_data.objects_seen[i].label \in Labels
                /\ \A j \in 1..Len(session_data.objects_seen) :
                      session_data.objects_seen[j].label
                          = session_data.objects_seen[i].label => j = i
          /\ session_data.dangerous_events = CountDangerous(processed))
    /\ [][/\ \A label \in Labels :
                SeenCount(session_data.objects_seen', label)
                    >= SeenCount(session_data.objects_seen, label)
          /\ session_data.dangerous_events' >= session_data.dangerous_events
          /\ request.op # "generate_response" => session_data' = session_data]_vars
\* After a suppressed log record, a summary and a question, the counters
\* still hold every processed detection.
C18_Witness ==
    /\ result.op = "ask" /\ summary # NoResult
    /\ Len(processed) = MaxProcessed /\ Len(log_records) < Len(processed)
    /\ session_data.dangerous_events > 0

\* The list is in non-increasing order of count, holds at most 5 items, all
\* of them items of seen, and leaves out none with a larger count.
IsTopOf(top, seen) ==
    /\ Len(top) = Min(5, Len(seen))
    /\ \A i \in 1..(Len(top) - 1) : top[i].count >= top[i + 1].count
    /\ \A i \in 1..Len(top) :
          /\ \E j \in 1..Len(seen) : seen[j] = top[i]
          /\ \A k \in 1..Len(top) : top[k].label = top[i].label => k = i
    /\ \A j \in 1..Len(seen) :
          (\A i \in 1..Len(top) : top[i] # seen[j]) =>
              \A i \in 1..Len(top) : top[i].count >= seen[j].count

\* C19: summarize_session leaves SessionStats as it is; a call returns the
\* same dangerous-event count and the same list (at most 5 labels with their
\* counts, in non-increasing order of count) as the first call since the
\* last generate_response, and the same text but for the duration.
C19_SummaryReadOnlyIdempotent ==
    /\ []((result.op = "summarize_session") =>
            /\ summary # NoResult
            /\ result.dangerous = summary.dangerous
            /\ result.top = summary.top
            /\ result.dangerous = session_data.dangerous_events
            /\ IsTopOf(result.top, session_data.objects_seen)
            /\ result.value = SummaryText(result.duration, summary.dangerous, summary.top)
            /\ result.duration = summary.duration => result.value = summary.value)
    /\ [][(request.op = "summarize_session" /\ request' = Idle) =>
              session_data' = session_data]_vars
\* A second summary of six labels, later than the first.
C19_Witness ==
    /\ result.op = "summarize_session" /\ summary # NoResult
    /\ result.duration > summary.duration
    /\ Len(session_data.objects_seen) = 6
    /\ session_data.objects_seen[1].count < session_data.objects_seen[6].count

\* ------------------------------------------------------------ web server
\* C15: once a session of an existing user has identified itself with
\* GET /api/user/me, active_user_id is that user's id, and the process()
\* calls made after it receive that id.
C15_ActiveUserIsIdentifiedUser ==
    hist.identified # None =>
        /\ active_user_id = hist.identified
        /\ hist.passed # "unset" => hist.passed = hist.identified

\* C16: the status is "Running" only when a frame has been read since the
\* last activation request.
C16_RunningOnlyAfterFrame ==
    (scenario = "start" /\ system_status = "Running") => hist.frameRead

\* C17: while the system is active and the last camera acquisition failed,
\* the visible status is not "Running".
C17_DegradedWhileAcquisitionFails ==
    (scenario = "start" /\ system_active /\ hist.camFailing) => system_status # "Running"

\* C20: a step that replaces a snapshot field is taken by a thread that holds
\* the lock: none is taken while the handler of a state request holds it.
C20_WritesHoldTheLock ==
    [][lock = "handler" =>
         UNCHANGED <<latest_frame, current_detections, latest_llm_response,
                     system_status, current_fps, system_active>>]_vars

\* A step of the handler in flight that runs an external call: camera.stop()
\* (line 268), AudioFeedback() and clear_queue() (lines 84, 323),
\* SceneReasoner() and llm.ask() (lines 78, 312).
HandlerExternalCall ==
    \/ hpc = "state_stop" /\ camera # None /\ camera' = None
    \/ hpc = "audio_new" /\ audio' # audio
    \/ hpc = "audio_clear" /\ hpc' = "audio_done"
    \/ hpc = "ask_new" /\ reasoner' # reasoner
    \/ hpc = "ask_call" /\ hpc' = "idle"

\* C21: no thread runs an external call (detector, reasoner, language model,
\* audio call, camera call) while it holds the shared lock.
C21_NoExternalCallUnderLock ==
    [][HandlerExternalCall => lock # "handler"]_vars

\* C22: at most one SceneReasoner and one AudioFeedback are ever constructed,
\* so the instance a mute request has set is the one the loop speaks through.
C22_SingletonsBuiltOnce ==
    /\ reasoner \in {NoInstance, 1}
    /\ audio \in {NoInstance, 1}
    /\ (hpc = "audio_done" /\ lpc = "speak") => h_obj = l_aud

\* C26: a request rejected with 401 changes no process state: neither
\* system_active, system_status and the camera, nor show_overlays and the
\* stored user settings.
C26_RejectedRequestChangesNothing ==
    [][hist.rejections' # hist.rejections =>
         UNCHANGED <<system_active, system_status, camera, show_overlays,
                     user_settings>>]_vars

\* C27: while the detector is unavailable, a tick that obtained a frame
\* publishes it, goes on to the frame count and the FPS estimate, and changes
\* neither current_detections nor latest_llm_response nor any audio queue;
\* get_detector attempts the construction again in every tick; the reasoner
\* is reached only from a detector run of the same tick, with its list.
C27_TickWithoutDetector ==
    [][/\ (lpc = "publish" /\ lpc' # lpc) =>
            latest_frame' = "frame" /\ lpc' = "detect"
       /\ (lpc = "detect" /\ ~detector /\ lpc' # lpc) => lpc' = "count"
       /\ (lpc = "count" /\ lpc' # lpc) =>
            /\ \E sample \in FpsSamples : current_fps' = Smooth(current_fps, sample)
            /\ lpc' = "check"
       /\ (lpc = "cam_check" /\ camera # None /\ lpc' # lpc) => lpc' = "det"
       /\ (lpc = "det" /\ lpc' # lpc) => lpc' = "res" /\ (detector => detector')
       /\ (~detector /\ lpc \notin {"det", "idle", "check"} /\ lpc' # lpc) =>
            /\ UNCHANGED <<detector, current_detections, latest_llm_response>>
            /\ \A id \in InstanceIds : Len(queue'[id]) <= Len(queue[id])
       /\ lpc' \in {"process", "store", "speak"} => detector'
       /\ (lpc' = "process" /\ lpc # "process") =>
            /\ lpc = "detect" /\ detector /\ DetectionDue(frame_count)
            /\ current_detections' \in DetLists
       /\ lpc = "process" =>
            /\ UNCHANGED current_detections
            /\ lpc' = "store" => res_text' \in ProcessResults(current_detections)
      ]_vars

\* C27: a detection tick has reached the frame count without a detector:
\* the frame is published, list and narration are as at the start.
C27_Witness ==
    /\ lpc = "count" /\ ~detector /\ DetectionDue(frame_count)
    /\ latest_frame = "frame"
    /\ current_detections = << >> /\ latest_llm_response = Welcome
    /\ \A id \in InstanceIds : queue[id] = << >>

\* The order of a detection tick: the detector is reached from the
\* publication of the frame, the reasoner from the detector, the store of the
\* narration from the reasoner, the speak call from the store, and the speak
\* call hands the stored narration to the AudioFeedback once.
TickOrder ==
    /\ (lpc' = "detect" /\ lpc # "detect") => lpc = "publish" /\ latest_frame' = "frame"
    /\ (lpc' = "process" /\ lpc # "process") => lpc = "detect"
    /\ (lpc' = "store" /\ lpc # "store") => lpc = "process"
    /\ (lpc' = "speak" /\ lpc # "speak") =>
         lpc = "store" /\ latest_llm_response' = res_text
    /\ (lpc = "speak" /\ lpc' # lpc) =>
         \/ lpc' = "count" /\ queue' = Speak(l_aud, latest_llm_response)
         \/ lpc' = "except" /\ UNCHANGED queue

\* The detector ran in the step that leaves line 145.
DetectorRan == lpc' \in {"process", "except"}

\* C23, as stated: counting the ticks that obtained a frame, the detector
\* runs on exactly every Nth of them, starting with the first, also after a
\* tick that ended in an exception; the tick keeps its order.
C23_DetectorEveryNthFrameTick ==
    [][/\ (scenario = "cadence" /\ lpc = "detect" /\ detector /\ lpc' # lpc) =>
            (DetectorRan <=> hist.frameTicks = 1 % DETECTION_INTERVAL)
       /\ TickOrder]_vars

\* C23, amended: counting the ticks that obtained a frame and ended without an
\* exception, the detector runs exactly on the ticks that follow a multiple
\* of N of them; the tick keeps its order.
C23_DetectorEveryNthCompletedTick ==
    [][/\ (scenario = "cadence" /\ lpc = "detect" /\ detector /\ lpc' # lpc) =>
            (DetectorRan <=> hist.doneTicks = 0)
       /\ TickOrder]_vars

\* C23: a tick that is not an Nth tick with a frame has run the detector
\* (the ticks before it ended in an exception), and its narration is the
\* newest item of the queue.
C23_Witness ==
    /\ scenario = "cadence" /\ lpc = "count"
    /\ hist.doneTicks = 0 /\ hist.frameTicks # 1 % DETECTION_INTERVAL
    /\ queue[l_aud] # << >>
    /\ queue[l_aud][Len(queue[l_aud])] = latest_llm_response
    /\ latest_llm_response # Welcome

\* ------------------------------------------------------------ LLMService
\* "A {distance} {label} at {position}." for the detections of ObjectLists.
ExpectedDescription(obj) ==
    IF obj = Chair THEN "A far chair at left." ELSE "A near stair at center."

\* One write per detection of the list, in order, tagged with label and
\* timestamp.
ExpectedWrites(objects, timestamp) ==
    [i \in 1..Len(objects) |->
        [description |-> ExpectedDescription(objects[i]),
         metadata |-> [label |-> objects[i].label, timestamp |-> timestamp]]]

\* C24, as stated: every detection processed by generate_response fires
\* exactly one MemoryStore write, at every moment of the process lifetime.
C24_OneWritePerDetection ==
    result.op = "generate_response" =>
        result.writes = ExpectedWrites(result.objects, result.time)

\* C24, amended: exactly one write is fired for every detection processed
\* while the store exists, inside its logging cooldown or not, and none for a
\* detection processed before the store was built; the call returns whether
\* or not a write has landed.
C24_OneWritePerDetectionOnceStoreBuilt ==
    result.op = "generate_response" =>
        /\ result.writes =
             ExpectedWrites(SubSeq(result.objects, result.skipped + 1,
                                   Len(result.objects)), result.time)
        /\ result.store = None => result.writes = << >>
        /\ result.skipped = 0 /\ result.store # None =>
             Len(result.writes) = Len(result.objects)

\* C24: two detections of one label at one time, the store built: one log
\* record, two writes fired, none landed when the call returned.
C24_Witness ==
    /\ result.op = "generate_response"
    /\ result.objects = <<Chair, Chair>>
    /\ Len(log_records) = 1
    /\ Len(result.writes) = 2
    /\ vector_store = EmptyStore

\* The labels of PromptObjectLists that contain "person", whatever the case.
PersonLabels == {"Person", "salesperson"}
PersonDetected == \E i \in 1..Len(result.objects) : result.objects[i].label \in PersonLabels
\* The faces of the active user that were loaded, in the order of the table.
OwnedLoaded ==
    SelectSeq(result.faces, LAMBDA face : face.user_id = result.user_id /\ face.loads)
FacesPresent == PersonDetected /\ result.user_id # None /\ OwnedLoaded # << >>
FaceCount == IF FacesPresent THEN Len(OwnedLoaded) ELSE 0

\* The contents start with label and image of every face of OwnedLoaded when
\* FacesPresent, and with no face otherwise; the prompt text follows and
\* holds the face-comparison instruction exactly when FacesPresent.
FacesThenPrompt ==
    /\ Len(result.contents) >= 2 * FaceCount + 1
    /\ \A i \in 1..FaceCount :
          /\ result.contents[2 * i - 1].kind = "text"
          /\ result.contents[2 * i - 1].pieces =
                <<"Reference Image: " \o OwnedLoaded[i].name>>
          /\ result.contents[2 * i].kind = "image"
          /\ result.contents[2 * i].image = OwnedLoaded[i].file_path
    /\ LET prompt == result.contents[2 * FaceCount + 1]
       IN  /\ prompt.kind = "text"
           /\ Head(prompt.pieces) = PromptPrefix
           /\ (\E k \in 1..Len(prompt.pieces) : prompt.pieces[k] = FaceInstruction)
                 <=> FacesPresent
    /\ \A i \in 1..Len(result.contents) :
          (result.contents[i].kind = "image" /\ result.contents[i].mode = "file") =>
              \E k \in 1..Len(result.faces) :
                  /\ result.faces[k].file_path = result.contents[i].image
                  /\ result.faces[k].user_id = result.user_id

\* C25, as stated: faces, then the prompt text, then the camera frame as the
\* next and last item (checked for the calls that were given a frame).
C25_FacesPromptFrame ==
    (result.op = "generate_content" /\ result.image_data = Frame) =>
        /\ FacesThenPrompt
        /\ Len(result.contents) = 2 * FaceCount + 2
        /\ result.contents[2 * FaceCount + 2].kind = "image"
        /\ result.contents[2 * FaceCount + 2].image = Frame

\* C25, amended: faces, then the prompt text, then, when the call was given
\* the frame as an array, the text "Main Image:" and the frame in RGB;
\* nothing follows the prompt text otherwise.
C25_FacesPromptLabelFrame ==
    result.op = "generate_content" =>
        /\ FacesThenPrompt
        /\ IF result.image_data = Frame
           THEN /\ Len(result.contents) = 2 * FaceCount + 3
                /\ result.contents[2 * FaceCount + 2].kind = "text"
                /\ result.contents[2 * FaceCount + 2].pieces = <<"Main Image:">>
                /\ result.contents[2 * FaceCount + 3].kind = "image"
                /\ result.contents[2 * FaceCount + 3].image = Frame
                /\ result.contents[2 * FaceCount + 3].mode = "RGB"
           ELSE Len(result.contents) = 2 * FaceCount + 1

\* C25: a person in upper case, user "1", a table with a face of another
\* user and a face that does not load: the two other faces are sent.
C25_Witness ==
    /\ result.op = "generate_content"
    /\ result.objects = <<Person, Chair>>
    /\ result.user_id = "1" /\ result.image_data = Frame
    /\ result.faces = <<Anna, Ben, Dora>>
    /\ Len(result.contents) = 7
====
